---------------------------- MODULE Spec2Model ----------------------------
(* A model of src/ipums_data_prep.py: the layout parser get_varspec, the   *)
(* label sanitizer sanitize_text and the fixed-width transcoder save_data. *)
(* Text is a sequence of one-character strings; a Python dict's optional   *)
(* keys are a set of key names beside the values.                          *)
EXTENDS Integers, Sequences, FiniteSets, TLC

VARIABLES
    pc,         \* position in the program
    status,     \* get_varspec: the parser's status string
    thisrec,    \* get_varspec: the currently known record type, <<>> for None
    varspec,    \* get_varspec: the dict being built / save_data: its argument
    eof,        \* get_varspec: the syntax file iterator is exhausted
    maxrows,    \* save_data: the row cap argument
    navail,     \* save_data: number of lines the raw data file holds
    dataLines,  \* save_data: the raw lines read from fin so far
    n,          \* save_data: records read
    nout,       \* save_data: records written per record type
    fout,       \* save_data: lines written to each record type's file
    fnames,     \* save_data: file name of each record type
    opened,     \* save_data: record types whose output file is open
    rectype,    \* save_data: the local rectype, <<>> before it is bound
    rec,        \* save_data: the fields of the record being built
    err,        \* the exception that ended the run, "" if none
    txtin,      \* sanitize_text: its argument
    txtout,     \* sanitize_text: its result, <<"unset">> before the call
    vstatus,    \* get_valuelabels: its local status (0, 1 or 2)
    varname,    \* get_valuelabels: the local varname, <<"unset">> while unbound
    valspec,    \* get_valuelabels: the list of triples being built
    argv,       \* __main__: the command line, argv[1] the program name
    synfile,    \* __main__: the lines of the syntax file named by sys.argv[2]
    ddl,        \* __main__: the statements get_data_ddl returned, printed
    rows,       \* save_vars, save_valuelabels: the lines written to outfile
    nr,         \* save_valuelabels: triples read
    nw,         \* save_valuelabels: rows written
    printed     \* __main__: the messages printed

parserVars == <<status, thisrec, varspec, eof>>
dataVars == <<maxrows, navail, dataLines, n, nout, fout, fnames, opened, rectype, rec>>
textVars == <<txtin, txtout>>
valsVars == <<vstatus, varname, valspec>>
mainVars == <<argv, synfile, ddl, rows, nr, nw, printed>>
vars == <<pc, status, thisrec, varspec, eof, maxrows, navail, dataLines, n,
          nout, fout, fnames, opened, rectype, rec, err, txtin, txtout,
          vstatus, varname, valspec, argv, synfile, ddl, rows, nr, nw, printed>>

-----------------------------------------------------------------------------
(* Characters and Python's string primitives *)

TAB == "\t"
BSL == "\\"
NL == "\n"
SP == " "

Whitespace == {SP, TAB, NL}

Digits == {"0", "1", "2", "3", "4", "5", "6", "7", "8", "9"}

DigitVal ==
    [c \in Digits |->
        CASE c = "0" -> 0 [] c = "1" -> 1 [] c = "2" -> 2 [] c = "3" -> 3
          [] c = "4" -> 4 [] c = "5" -> 5 [] c = "6" -> 6 [] c = "7" -> 7
          [] c = "8" -> 8 [] c = "9" -> 9]

Min(a, b) == IF a < b THEN a ELSE b

Max(a, b) == IF a < b THEN b ELSE a

\* str.isdigit(): non-empty and every character a digit
IsDigit(s) == s # <<>> /\ \A i \in 1..Len(s) : s[i] \in Digits

\* int(s) raises ValueError unless s is a digit string (no sign or blank occurs here)
ToIntOk(s) == IsDigit(s)

RECURSIVE IntAcc(_, _)
IntAcc(s, acc) ==
    IF s = <<>> THEN acc ELSE IntAcc(Tail(s), 10 * acc + DigitVal[Head(s)])

\* int(s) for a digit string
ToInt(s) == IntAcc(s, 0)

\* a slice bound as Python clamps it: a negative bound counts from the end
PyIndex(s, i) == IF i < 0 THEN Max(Len(s) + i, 0) ELSE Min(i, Len(s))

\* s[a:b]
PySlice(s, a, b) ==
    LET lo == PyIndex(s, a)
        hi == PyIndex(s, b)
    IN IF lo < hi THEN SubSeq(s, lo + 1, hi) ELSE <<>>

\* s[a:]
PySliceFrom(s, a) == PySlice(s, a, Len(s))

\* s[:b]
PySliceTo(s, b) == PySlice(s, 0, b)

RECURSIVE LStrip(_)
LStrip(s) ==
    IF s # <<>> /\ Head(s) \in Whitespace THEN LStrip(Tail(s)) ELSE s

RECURSIVE RStrip(_)
RStrip(s) ==
    IF s # <<>> /\ s[Len(s)] \in Whitespace
    THEN RStrip(SubSeq(s, 1, Len(s) - 1))
    ELSE s

\* str.strip()
Strip(s) == RStrip(LStrip(s))

RECURSIVE Replace(_, _, _)
\* str.replace(old, new) for a one-character old
Replace(s, old, new) ==
    IF s = <<>> THEN <<>>
    ELSE (IF Head(s) = old THEN new ELSE <<Head(s)>>) \o Replace(Tail(s), old, new)

RECURSIVE Join(_, _)
\* sep.join(parts)
Join(sep, parts) ==
    IF parts = <<>> THEN <<>>
    ELSE IF Len(parts) = 1 THEN parts[1]
    ELSE parts[1] \o sep \o Join(sep, Tail(parts))

RECURSIVE SeqsUpTo(_, _)
\* all sequences over S of length at most k
SeqsUpTo(S, k) ==
    IF k = 0 THEN {<<>>}
    ELSE LET shorter == SeqsUpTo(S, k - 1)
         IN shorter \cup {Append(q, x) : q \in shorter, x \in S}

-----------------------------------------------------------------------------
(* sanitize_text *)

sanitize_text(t) == Replace(Replace(t, TAB, <<BSL, "t">>), BSL, <<BSL, BSL>>)

-----------------------------------------------------------------------------
(* Lines of the syntax file.  A line is a record of its parts; the text it *)
(* stands for is given beside each constructor, and the Has.../Match...    *)
(* operators below say what each regular expression of the source does on  *)
(* that text.                                                              *)

Line(kind, name, start, end, flag, text) ==
    [kind |-> kind, name |-> name, start |-> start, end |-> end,
     flag |-> flag, text |-> text]

\* "data list /"
DataListLine == Line("datalist", <<>>, <<>>, <<>>, <<>>, <<>>)

\* "file type mixed"
FileTypeMixedLine == Line("filetypemixed", <<>>, <<>>, <<>>, <<>>, <<>>)

\* "  /record=<start>[-<end>]"; with start empty, "  /record" alone
RecordLine(start, end) == Line("record", <<>>, start, end, <<>>, <<>>)

\* "record type "<code>"."; with code empty, "record type" alone
RecordTypeLine(code) == Line("recordtype", code, <<>>, <<>>, <<>>, <<>>)

\* "end file type."
EndFileTypeLine == Line("endfiletype", <<>>, <<>>, <<>>, <<>>, <<>>)

\* "."
DotLine == Line("dot", <<>>, <<>>, <<>>, <<>>, <<>>)

\* "  <name> <start>[-<end>] [(<flag>)]"
VarLine(name, start, end, flag) == Line("var", name, start, end, flag, <<>>)

\* "variable labels"
VarLabelsLine == Line("varlabels", <<>>, <<>>, <<>>, <<>>, <<>>)

\* "  <name> "<text>""
LabelLine(name, text) == Line("label", name, <<>>, <<>>, <<>>, text)

\* an empty line
BlankLine == Line("blank", <<>>, <<>>, <<>>, <<>>, <<>>)

\* "value labels"
ValueLabelsLine == Line("valuelabels", <<>>, <<>>, <<>>, <<>>, <<>>)

\* "  /<name>"
SlashLine(name) == Line("slash", name, <<>>, <<>>, <<>>, <<>>)

\* "    + "<text>""
PlusLine(text) == Line("plus", <<>>, <<>>, <<>>, <<>>, text)

\* "    "<value>" "<text>""; the value is kept in the name part
ValueLine(value, text) == Line("value", value, <<>>, <<>>, <<>>, text)

\* re.search("data list", line)
HasDataList(line) == line.kind = "datalist"

\* re.search("file type mixed", line)
HasFileTypeMixed(line) == line.kind = "filetypemixed"

\* re.search("\s*/record", line)
HasSlashRecord(line) == line.kind = "record"

\* re.search("\s*/record\s*\=\s*(\d+)\-?(\d*)", line) is not None
MatchRecordRange(line) == line.kind = "record" /\ line.start # <<>>

\* re.search("record type", line)
HasRecordType(line) == line.kind = "recordtype"

\* re.search("record type\s+\"?(\w+)\"?", line) is not None
MatchRecordType(line) == line.kind = "recordtype" /\ line.name # <<>>

\* re.search("end file type", line)
HasEndFileType(line) == line.kind = "endfiletype"

\* re.match("\s*\.", line)
IsTerminator(line) == line.kind = "dot"

\* re.match("\s*(\w+)\s+(\d+)\-?(\d*)\s*\(?(\w*)\)?", line) is not None
MatchVarDecl(line) == line.kind = "var"

\* re.search("variable labels", line)
HasVariableLabels(line) == line.kind = "varlabels"

\* re.match("\s*(\w+)\s+\"(.+)\"", line) is not None
MatchLabel(line) == line.kind = "label"

\* re.search("value labels", line)
HasValueLabels(line) == line.kind = "valuelabels"

\* re.match("\s*\/(\w+)", line) is not None: also a "/record" line
MatchSlash(line) == line.kind \in {"slash", "record"}

\* m.group(1) of that match
SlashName(line) ==
    IF line.kind = "record" THEN <<"r", "e", "c", "o", "r", "d">> ELSE line.name

\* re.match("\s*\+\s*\"(.+)\"", line) is not None
MatchPlus(line) == line.kind = "plus"

\* re.match("\s*\"?(\w+)\"?\s+\"(.+)\"", line) is not None: also a line of
\* the variable labels section, whose name is then taken for the value
MatchValue(line) == line.kind \in {"value", "label"}

-----------------------------------------------------------------------------
(* get_varspec *)

\* the key 0 that stands for "no record types" (a Python int, not a str)
DefaultRecType == <<"0:int">>

NoRec == <<>>

\* a local name that is not bound yet
Unset == <<"unset">>

\* the lines of an output file that has not been created
NoFile == <<Unset>>

\* the statements when get_data_ddl has not been called
NoDdl == <<[table |-> Unset, cols |-> <<>>]>>

EmptyVarspec ==
    [vars |-> <<>>, mixed |-> FALSE, rectypes |-> {},
     rectype_startpos |-> <<>>, rectype_endpos |-> <<>>, keys |-> {}]

ParserState(st, cur, vs, e) ==
    [status |-> st, thisrec |-> cur, varspec |-> vs, err |-> e]

ParserInit == ParserState("wait", NoRec, EmptyVarspec, "")

\* the record type is not entered in the rectypes dict
RegisterRecTypeForgotten(vs, code) == vs

\* varspec['rectypes'][thisrec] = True
RegisterRecType(vs, code) == [vs EXCEPT !.rectypes = @ \cup {code}]

\* lines 105-107: the two groups of the /record match, as matched
SetRecordRange(vs, line) ==
    [vs EXCEPT !.rectype_startpos = line.start,
               !.rectype_endpos = line.end,
               !.mixed = TRUE,
               !.keys = @ \cup {"rectype_startpos", "rectype_endpos"}]

\* lines 127-138: the dict of one declared variable
MakeVar(cur, line) ==
    [name |-> line.name,
     startpos |-> line.start,
     endpos |-> IF line.end # <<>> THEN line.end ELSE line.start,
     rectype |-> cur,
     digits |-> IF line.flag # <<>> /\ line.flag \notin {<<"a">>, <<"A">>}
                   /\ IsDigit(line.flag)
                THEN line.flag ELSE <<>>,
     label |-> <<>>,
     keys |-> (IF cur # NoRec THEN {"rectype"} ELSE {})
              \cup (IF line.flag \in {<<"a">>, <<"A">>} THEN {"alpha"} ELSE {})
              \cup (IF line.flag # <<>> /\ line.flag \notin {<<"a">>, <<"A">>}
                       /\ IsDigit(line.flag)
                    THEN {"digits"} ELSE {})]

\* the terminator of a variable list ends the layout whatever the context
StatusAfterTerminatorAlwaysDone(cur) == "done"

\* lines 120-124: the status after the terminator line of a variable list
StatusAfterTerminator(cur) == IF cur = NoRec THEN "done" ELSE "rectype"

\* lines 96-142: one pass of the data-list loop body over one line
LayoutStep(st, line) ==
    CASE st.status = "wait" ->
            IF HasDataList(line) THEN [st EXCEPT !.status = "data list"]
            ELSE IF HasFileTypeMixed(line) THEN [st EXCEPT !.status = "mixed"]
            ELSE st
      [] st.status = "mixed" ->
            IF HasSlashRecord(line)
            THEN IF MatchRecordRange(line)
                 THEN [st EXCEPT !.varspec = SetRecordRange(@, line),
                                 !.status = "rectype"]
                 ELSE [st EXCEPT !.err = "AttributeError"]
            ELSE st
      [] st.status = "rectype" ->
            IF HasRecordType(line)
            THEN IF MatchRecordType(line)
                 THEN [st EXCEPT !.thisrec = line.name,
                                 !.varspec = RegisterRecType(@, line.name),
                                 !.status = "wait"]
                 ELSE [st EXCEPT !.err = "AttributeError"]
            ELSE IF HasEndFileType(line) THEN [st EXCEPT !.status = "done"]
            ELSE st
      [] st.status = "data list" ->
            IF IsTerminator(line)
            THEN [st EXCEPT !.status = StatusAfterTerminator(st.thisrec)]
            ELSE IF MatchVarDecl(line)
                 THEN [st EXCEPT !.varspec.vars = Append(@, MakeVar(st.thisrec, line))]
                 ELSE [st EXCEPT !.err = "AttributeError"]
      [] OTHER -> st

\* the placeholder record type is not inserted
DefaultRectypesMissing(vs) == vs

\* lines 145-146
DefaultRectypes(vs) ==
    IF Cardinality(vs.rectypes) = 0
    THEN [vs EXCEPT !.rectypes = {DefaultRecType}]
    ELSE vs

RECURSIVE AttachLabel(_, _, _)
\* lines 159-162: the first variable of that name gets the label
AttachLabel(vs, name, text) ==
    IF vs = <<>> THEN <<>>
    ELSE IF Head(vs).name = name
         THEN <<[Head(vs) EXCEPT !.label = text, !.keys = @ \cup {"label"}]>> \o Tail(vs)
         ELSE <<Head(vs)>> \o AttachLabel(Tail(vs), name, text)

\* lines 151-165: one pass of the variable-labels loop body over one line
LabelStep(st, line) ==
    CASE st.status = "wait" ->
            IF HasVariableLabels(line)
            THEN [st EXCEPT !.status = "variable labels"]
            ELSE st
      [] st.status = "variable labels" ->
            IF IsTerminator(line)
            THEN [st EXCEPT !.status = "end variable labels"]
            ELSE IF MatchLabel(line)
                 THEN [st EXCEPT !.varspec.vars = AttachLabel(@, line.name, line.text)]
                 ELSE [st EXCEPT !.err = "AttributeError"]
      [] OTHER -> st

\* lines 144-149: what follows the data-list loop
AfterLayout(st) ==
    [st EXCEPT !.varspec = DefaultRectypes(@), !.status = "wait"]

RECURSIVE RunLayout(_, _, _)
\* lines 95-142 over the lines file[i..]; the result is <<state, next line>>.
\* In status "done" the for statement reads one more line before the break.
RunLayout(st, file, i) ==
    IF st.err # "" \/ i > Len(file) THEN <<st, i>>
    ELSE IF st.status = "done" THEN <<st, i + 1>>
    ELSE RunLayout(LayoutStep(st, file[i]), file, i + 1)

RECURSIVE RunLabels(_, _, _)
\* lines 150-165 over the lines file[i..]
RunLabels(st, file, i) ==
    IF st.err # "" \/ i > Len(file) \/ st.status = "end variable labels" THEN st
    ELSE RunLabels(LabelStep(st, file[i]), file, i + 1)

\* get_varspec on a whole syntax file: the parser state at its return or crash
GetVarspec(file) ==
    LET r == RunLayout(ParserInit, file, 1)
    IN IF r[1].err # "" THEN r[1] ELSE RunLabels(AfterLayout(r[1]), file, r[2])

-----------------------------------------------------------------------------
(* get_valuelabels *)

ValsState(st, name, vals, e) ==
    [status |-> st, varname |-> name, valspec |-> vals, err |-> e]

ValsInit == ValsState(0, Unset, <<>>, "")

\* the triple is put in front of the list
AppendTripleInFront(vals, name, value, label) == <<<<name, value, label>>>> \o vals

\* line 241: valspec.append([ varname, value, value_label ])
AppendTriple(vals, name, value, label) == Append(vals, <<name, value, label>>)

\* the fragment goes to the label of the first triple
ContinueLabelOfFirst(vals, frag) == [vals EXCEPT ![1][3] = @ \o frag]

\* line 235: valspec[len(valspec)-1][2] += m.group(1), on a list that is not empty
ContinueLabel(vals, frag) == [vals EXCEPT ![Len(vals)][3] = @ \o frag]

\* lines 221-244: one pass of the loop body over one line
ValStep(st, line) ==
    CASE st.status = 0 ->
            IF HasValueLabels(line) THEN [st EXCEPT !.status = 1] ELSE st
      [] st.status = 1 ->
            IF IsTerminator(line) THEN [st EXCEPT !.status = 2]
            ELSE IF MatchSlash(line) THEN [st EXCEPT !.varname = SlashName(line)]
            ELSE IF MatchPlus(line)
                 THEN IF st.valspec = <<>>
                      THEN [st EXCEPT !.err = "IndexError"]
                      ELSE [st EXCEPT !.valspec = ContinueLabel(@, line.text)]
            ELSE IF MatchValue(line)
                 THEN IF st.varname = Unset
                      THEN [st EXCEPT !.err = "UnboundLocalError"]
                      ELSE [st EXCEPT !.valspec =
                                AppendTriple(@, st.varname, line.name, line.text)]
            ELSE [st EXCEPT !.err = "AttributeError"]
      [] OTHER -> st

RECURSIVE RunVals(_, _, _)
\* lines 219-244 over the lines file[i..]
RunVals(st, file, i) ==
    IF st.err # "" \/ i > Len(file) \/ st.status = 2 THEN st
    ELSE RunVals(ValStep(st, file[i]), file, i + 1)

\* get_valuelabels on a whole syntax file: its state at its return or crash
GetValuelabels(file) == RunVals(ValsInit, file, 1)

-----------------------------------------------------------------------------
(* get_data_ddl, save_vars, save_valuelabels *)

DigitChar(d) == CHOOSE c \in Digits : DigitVal[c] = d

RECURSIVE NatToStr(_)
NatToStr(k) ==
    IF k < 10 THEN <<DigitChar(k)>>
    ELSE NatToStr(k \div 10) \o <<DigitChar(k % 10)>>

\* str(k)
IntToStr(k) == IF k < 0 THEN <<"-">> \o NatToStr(0 - k) ELSE NatToStr(k)

\* line 192
VarLen(var) == 1 + ToInt(var.endpos) - ToInt(var.startpos)

\* a width of 9 already gets the larger integer type
DdlTypeWideAtNine(var) ==
    IF "alpha" \in var.keys
    THEN <<"v", "a", "r", "c", "h", "a", "r", "(">> \o IntToStr(VarLen(var)) \o <<")">>
    ELSE IF "digits" \in var.keys THEN <<"double precision">>
    ELSE IF VarLen(var) >= 9 THEN <<"bigint">>
    ELSE <<"int">>

\* lines 193-205: the column type, the words of a type name kept whole
DdlType(var) ==
    IF "alpha" \in var.keys
    THEN <<"v", "a", "r", "c", "h", "a", "r", "(">> \o IntToStr(VarLen(var)) \o <<")">>
    ELSE IF "digits" \in var.keys THEN <<"double precision">>
    ELSE IF VarLen(var) > 9 THEN <<"bigint">>
    ELSE <<"int">>

DdlState(cur, stmts) == [rectype |-> cur, stmts |-> stmts]

CreateTable(table) == [table |-> table, cols |-> <<>>]

\* the column is put in front of the statement's columns
DdlAddColumnInFront(stmts, var) ==
    [stmts EXCEPT ![Len(stmts)].cols =
        <<[name |-> var.name, type |-> DdlType(var)]>> \o @]

\* lines 191-205: the column line added to the statement under construction
DdlAddColumn(stmts, var) ==
    [stmts EXCEPT ![Len(stmts)].cols =
        Append(@, [name |-> var.name, type |-> DdlType(var)])]

\* lines 181-205: one pass of the loop body over the i-th variable (i from 0).
\* The text s is kept as the list of its create table statements, each with
\* its column lines; closing a statement (lines 187, 207) drops the comma
\* and newline that end its last column line.
DdlStep(acc, var, i) ==
    LET begun ==
            IF "rectype" \in var.keys
            THEN IF acc.rectype = NoRec
                 THEN DdlState(var.rectype, <<CreateTable(var.rectype)>>)
                 ELSE IF acc.rectype # var.rectype
                      THEN DdlState(var.rectype,
                                    Append(acc.stmts, CreateTable(var.rectype)))
                      ELSE acc
            ELSE IF i = 0
                 THEN DdlState(acc.rectype, <<CreateTable(<<"ipumsdata">>)>>)
                 ELSE acc
    IN [begun EXCEPT !.stmts = DdlAddColumn(@, var)]

RECURSIVE DdlRun(_, _, _)
DdlRun(acc, vs, i) ==
    IF i >= Len(vs) THEN acc ELSE DdlRun(DdlStep(acc, vs[i + 1], i), vs, i + 1)

\* get_data_ddl: the statements of the returned text
get_data_ddl(vs) == DdlRun(DdlState(NoRec, <<>>), vs.vars, 0).stmts

\* lines 267-271: the line written for one variable
VarRow(var) ==
    var.name \o <<TAB>>
    \o (IF "label" \in var.keys THEN sanitize_text(var.label) ELSE <<>>)
    \o <<NL>>

\* save_vars: the lines written to outfile, in the order written
save_vars(vs) == [i \in 1..Len(vs.vars) |-> VarRow(vs.vars[i])]

RECURSIVE FirstNamed(_, _, _)
\* lines 292-293, 299: the first variable from the i-th on called name, 0 if none
FirstNamed(vs, name, i) ==
    IF i > Len(vs) THEN 0
    ELSE IF vs[i].name = name THEN i
    ELSE FirstNamed(vs, name, i + 1)

\* line 297
ValRow(val) ==
    val[1] \o <<TAB>> \o val[2] \o <<TAB>> \o sanitize_text(val[3]) \o <<NL>>

ValsOut(rs, r, w) == [rows |-> rs, nr |-> r, nw |-> w]

\* lines 290-302: one pass of the loop body over one triple
SaveValStep(acc, vs, val) ==
    LET i == FirstNamed(vs.vars, val[1], 1)
    IN IF i # 0 /\ "alpha" \notin vs.vars[i].keys
       THEN ValsOut(Append(acc.rows, ValRow(val)), acc.nr + 1, acc.nw + 1)
       ELSE ValsOut(acc.rows, acc.nr + 1, acc.nw)

RECURSIVE SaveValRun(_, _, _)
SaveValRun(acc, vs, vals) ==
    IF vals = <<>> THEN acc
    ELSE SaveValRun(SaveValStep(acc, vs, Head(vals)), vs, Tail(vals))

\* save_valuelabels: the lines written to outfile and the two counts
save_valuelabels(vs, vals) == SaveValRun(ValsOut(<<>>, 0, 0), vs, vals)

-----------------------------------------------------------------------------
(* Bounds and the inputs the specifications draw from *)

MaxVars == 2

MaxLines == 2

MaxTextLen == 3

MaxVals == 2

MaxLabelLen == 2

RecH == <<"H">>

RecP == <<"P">>

\* "V1 2-3", "V2 2-4 (2)", "V3 4 (a)", "V4 2-3 (0)"
VarLines ==
    {VarLine(<<"V", "1">>, <<"2">>, <<"3">>, <<>>),
     VarLine(<<"V", "2">>, <<"2">>, <<"4">>, <<"2">>),
     VarLine(<<"V", "3">>, <<"4">>, <<>>, <<"a">>),
     VarLine(<<"V", "4">>, <<"2">>, <<"3">>, <<"0">>)}

\* "/record=1", "/record=1-1", "/record=1-2"
RecordLines ==
    {RecordLine(<<"1">>, <<>>), RecordLine(<<"1">>, <<"1">>),
     RecordLine(<<"1">>, <<"2">>)}

\* a flat layout: data list, the declarations, the terminator
FlatFile(ds) == <<DataListLine>> \o ds \o <<DotLine>>

\* one record type's block of a hierarchical layout
Block(code, ds) == <<RecordTypeLine(code), DataListLine>> \o ds \o <<DotLine>>

\* a hierarchical layout with the first k declarations under "H", the rest under "P"
MixedFile(rl, ds, k) ==
    <<FileTypeMixedLine, rl>>
    \o Block(RecH, SubSeq(ds, 1, k))
    \o Block(RecP, SubSeq(ds, k + 1, Len(ds)))
    \o <<EndFileTypeLine>>

\* a hierarchical layout with the one record type "H"
MixedFileH(rl, ds) ==
    <<FileTypeMixedLine, rl>> \o Block(RecH, ds) \o <<EndFileTypeLine>>

\* a hierarchical layout that declares no record type
MixedFileNone(rl) == <<FileTypeMixedLine, rl, EndFileTypeLine>>

\* the syntax files the transcoder is run on
SyntaxFiles ==
    LET dss == SeqsUpTo(VarLines, MaxVars)
    IN {FlatFile(ds) : ds \in dss}
       \cup UNION {{MixedFile(rl, ds, k) : k \in 0..Len(ds)} :
                     rl \in RecordLines, ds \in dss}
       \cup {MixedFileH(rl, ds) : rl \in RecordLines, ds \in dss}
       \cup {MixedFileNone(rl) : rl \in RecordLines}

\* raw data lines as the file iterator yields them, the newline included:
\* "H123", "P 45", "H7" and "X123"
DataLines ==
    {<<"H", "1", "2", "3", NL>>,
     <<"P", SP, "4", "5", NL>>,
     <<"H", "7", NL>>,
     <<"X", "1", "2", "3", NL>>}

\* the lines the layout parser is stepped over: the declarations above,
\* "V5 3-2", "V6 0", a /record and a record type line that fail their
\* pattern, the labels section and an empty line
ParseLines ==
    {DataListLine, FileTypeMixedLine, EndFileTypeLine, DotLine, BlankLine,
     VarLabelsLine,
     RecordLine(<<"1">>, <<>>), RecordLine(<<"1">>, <<"2">>), RecordLine(<<>>, <<>>),
     RecordTypeLine(RecH), RecordTypeLine(RecP), RecordTypeLine(<<>>),
     VarLine(<<"V", "1">>, <<"2">>, <<"3">>, <<>>),
     VarLine(<<"V", "2">>, <<"2">>, <<"4">>, <<"2">>),
     VarLine(<<"V", "3">>, <<"4">>, <<>>, <<"a">>),
     VarLine(<<"V", "5">>, <<"3">>, <<"2">>, <<>>),
     VarLine(<<"V", "6">>, <<"0">>, <<>>, <<>>),
     LabelLine(<<"V", "1">>, <<"a", TAB>>),
     LabelLine(<<"V", "9">>, <<"b">>)}

\* the lines get_valuelabels is stepped over: the section marker, the
\* terminator, the names V1 and V3, two values, a continuation and an empty
\* line
ValLines ==
    {ValueLabelsLine, DotLine, BlankLine,
     SlashLine(<<"V", "1">>), SlashLine(<<"V", "3">>),
     ValueLine(<<"1">>, <<"Y">>), ValueLine(<<"2">>, <<"N">>),
     PlusLine(<<"e">>)}

\* "V7 1-10" and "V8 1-9": widths 10 and 9
WideLines ==
    {VarLine(<<"V", "7">>, <<"1">>, <<"1", "0">>, <<>>),
     VarLine(<<"V", "8">>, <<"1">>, <<"9">>, <<>>)}

\* the layouts the statements are generated from
DdlFiles ==
    LET dss == SeqsUpTo(VarLines \cup WideLines, MaxVars)
    IN {FlatFile(ds) : ds \in dss}
       \cup UNION {{MixedFile(RecordLine(<<"1">>, <<"1">>), ds, k) : k \in 0..Len(ds)} :
                     ds \in dss}

\* what stands between the layout's last line and the labels section
Gaps == {<<>>, <<BlankLine>>}

\* the variable labels sections: none, "V1 "a<TAB>"", and "V3 "b"" then "V1 "a""
LabelSections ==
    {<<>>,
     <<VarLabelsLine, LabelLine(<<"V", "1">>, <<"a", TAB>>), DotLine>>,
     <<VarLabelsLine, LabelLine(<<"V", "3">>, <<"b">>),
       LabelLine(<<"V", "1">>, <<"a">>), DotLine>>}

\* the syntax files the variable labels are saved from
VarsFiles ==
    LET dss == SeqsUpTo(VarLines, MaxVars)
        layouts == {FlatFile(ds) : ds \in dss}
                   \cup UNION {{MixedFile(RecordLine(<<"1">>, <<"1">>), ds, k) :
                                   k \in 0..Len(ds)} : ds \in dss}
    IN {l \o g \o ls : l \in layouts, g \in Gaps, ls \in LabelSections}

\* the lines of a value labels section: the names V1, V3 (declared alpha
\* below) and V9 (not declared), the values "1" "Y" and "2" "N<TAB>", and a
\* continuation
ValSectionLines ==
    {SlashLine(<<"V", "1">>), SlashLine(<<"V", "3">>), SlashLine(<<"V", "9">>),
     ValueLine(<<"1">>, <<"Y">>), ValueLine(<<"2">>, <<"N", TAB>>),
     PlusLine(<<"e">>)}

\* the syntax files the value labels are saved from: V1 and V3 declared,
\* flat or under two record types, or V3 alone, and a value labels section
ValsFiles ==
    LET v1 == VarLine(<<"V", "1">>, <<"2">>, <<"3">>, <<>>)
        v3 == VarLine(<<"V", "3">>, <<"4">>, <<>>, <<"a">>)
        layouts == {FlatFile(<<v1, v3>>), FlatFile(<<v3>>),
                    MixedFile(RecordLine(<<"1">>, <<"1">>), <<v1, v3>>, 1)}
    IN {l \o <<ValueLabelsLine>> \o body \o <<DotLine>> :
            l \in layouts, body \in SeqsUpTo(ValSectionLines, MaxVals + 1)}

Modes == {"ddl", "vars", "vals", "data", "help"}

\* the row caps given on the command line
Caps == {"0", "1", "2"}

\* the command lines of a mode, from the program name alone to all arguments
Argvs(mode) ==
    {SubSeq(<<"ipums_data_prep.py", mode, "syntax", "a3", "a4", cap>>, 1, k) :
        k \in 1..6, cap \in Caps}

FilesOf(mode) ==
    CASE mode = "ddl" -> DdlFiles
      [] mode = "vars" -> VarsFiles
      [] mode = "vals" -> ValsFiles
      [] OTHER -> SyntaxFiles

\* the characters of the texts sanitize_text is applied to
TextChars == {TAB, BSL, "t", "a"}

-----------------------------------------------------------------------------
(* save_data *)

\* os.path.splitext(outfile) of the output path "o.t"
OutRoot == <<"o">>

OutExt == <<".", "t">>

Outfile == OutRoot \o OutExt

\* lines 323-326: the output file name of a record type
FileName(vs, rt) ==
    IF vs.mixed = TRUE THEN OutRoot \o <<"_">> \o rt \o OutExt ELSE Outfile

\* line 324 adds str and int when the only record type is the placeholder
FileNameOk(vs, rt) == ~(vs.mixed = TRUE /\ rt = DefaultRecType)

\* line 334: both bounds of the discriminator convert to int
RecTypeOk(vs) ==
    vs.mixed => ToIntOk(vs.rectype_startpos) /\ ToIntOk(vs.rectype_endpos)

\* lines 333-336: the record type of a raw line
RecTypeOf(vs, line) ==
    IF vs.mixed
    THEN Strip(PySlice(line, ToInt(vs.rectype_startpos) - 1, ToInt(vs.rectype_endpos)))
    ELSE DefaultRecType

\* line 341: the variable belongs to this line's record
Applies(vs, var, rt) == ~vs.mixed \/ var.rectype = rt

\* line 341 reads var['rectype'] of every variable when the data is hierarchical
AppliesOk(vs) ==
    vs.mixed => \A i \in 1..Len(vs.vars) : "rectype" \in vs.vars[i].keys

\* line 342: the trimmed slice of the variable's columns
RawField(var, line) ==
    Strip(PySlice(line, ToInt(var.startpos) - 1, ToInt(var.endpos)))

\* line 344: the decimal point inserted before the last int(digits) characters
InsertPoint(fld, digits) ==
    PySliceTo(fld, 0 - ToInt(digits)) \o <<".">> \o PySliceFrom(fld, 0 - ToInt(digits))

\* lines 342-344: the field of one variable
Field(var, line) ==
    IF "digits" \in var.keys
    THEN InsertPoint(RawField(var, line), var.digits)
    ELSE RawField(var, line)

RECURSIVE BuildRec(_, _, _, _)
\* lines 339-345: the fields of the variables from the i-th on that apply
BuildRec(vs, rt, line, i) ==
    IF i > Len(vs.vars) THEN <<>>
    ELSE (IF Applies(vs, vs.vars[i], rt)
          THEN <<Field(vs.vars[i], line)>> ELSE <<>>)
         \o BuildRec(vs, rt, line, i + 1)

\* line 348: the text written for one record
OutLine(fields) == Join(<<TAB>>, fields) \o <<NL>>

\* the loop stops one record late
CapReachedLate(cnt, cap) == cnt = cap + 1

\* line 352
CapReached(cnt, cap) == cnt = cap

\* a record type that is not registered is not noticed
LineErrorUnregisteredPasses(vs, line) ==
    IF ~RecTypeOk(vs) THEN "ValueError"
    ELSE IF ~AppliesOk(vs) THEN "KeyError"
    ELSE ""

\* the exception, if any, that processing one raw line raises (lines 333-349)
LineError(vs, line) ==
    IF ~RecTypeOk(vs) THEN "ValueError"
    ELSE IF ~AppliesOk(vs) THEN "KeyError"
    ELSE IF RecTypeOf(vs, line) \notin vs.rectypes THEN "KeyError"
    ELSE ""

\* the count of another record type is the one incremented
BumpOther(counts, rt) ==
    [r \in DOMAIN counts |-> IF r = rt THEN counts[r] ELSE counts[r] + 1]

\* line 349
Bump(counts, rt) == [counts EXCEPT ![rt] = @ + 1]

\* lines 321-328: open the output file(s) and initialize the counters; the
\* loop leaves rectype at the last key the rectypes dict yields
SaveOpen ==
    /\ pc = "save_open"
    /\ IF \E r \in varspec.rectypes : ~FileNameOk(varspec, r)
       THEN /\ pc' = "error"
            /\ err' = "TypeError"
            /\ rectype' \in {r \in varspec.rectypes : ~FileNameOk(varspec, r)}
            /\ UNCHANGED <<fnames, fout, nout, opened>>
       ELSE /\ fnames' = [r \in varspec.rectypes |-> FileName(varspec, r)]
            /\ rectype' \in varspec.rectypes
            /\ fout' = [r \in varspec.rectypes |-> <<>>]
            /\ nout' = [r \in varspec.rectypes |-> 0]
            /\ opened' = varspec.rectypes
            /\ pc' = "save_loop"
            /\ err' = ""
    /\ UNCHANGED <<parserVars, textVars, valsVars, mainVars, maxrows, navail,
                   dataLines, n, rec>>

\* lines 331-353: one pass of the main loop over the next raw line
SaveLine ==
    /\ pc = "save_loop"
    /\ Len(dataLines) < navail
    /\ \E line \in DataLines :
        /\ dataLines' = Append(dataLines, line)
        /\ IF LineError(varspec, line) # ""
           THEN /\ pc' = "error"
                /\ err' = LineError(varspec, line)
                /\ IF RecTypeOk(varspec) /\ AppliesOk(varspec)
                   THEN /\ rectype' = RecTypeOf(varspec, line)
                        /\ rec' = BuildRec(varspec, RecTypeOf(varspec, line), line, 1)
                   ELSE UNCHANGED <<rectype, rec>>
                /\ UNCHANGED <<fout, nout, n>>
           ELSE LET rt == RecTypeOf(varspec, line)
                    fields == BuildRec(varspec, rt, line, 1)
                IN /\ rectype' = rt
                   /\ rec' = fields
                   /\ fout' = [fout EXCEPT ![rt] = Append(@, OutLine(fields))]
                   /\ nout' = Bump(nout, rt)
                   /\ n' = n + 1
                   /\ pc' = IF CapReached(n + 1, maxrows) THEN "save_close" ELSE "save_loop"
                   /\ err' = ""
    /\ UNCHANGED <<parserVars, textVars, valsVars, mainVars, maxrows, navail,
                   fnames, opened>>

\* line 331: the raw data file is exhausted
SaveEOF ==
    /\ pc = "save_loop"
    /\ Len(dataLines) = navail
    /\ pc' = "save_close"
    /\ UNCHANGED <<parserVars, dataVars, textVars, valsVars, mainVars, err>>

\* lines 355-362: close the files and report the counts; the loops over the
\* rectypes dict leave rectype at its last key, whichever the dict yields last
SaveClose ==
    /\ pc = "save_close"
    /\ opened' = {}
    /\ rectype' \in varspec.rectypes
    /\ pc' = "done"
    /\ UNCHANGED <<parserVars, textVars, valsVars, mainVars, err, maxrows, navail,
                   dataLines, n,
                   nout, fout, fnames, rec>>

-----------------------------------------------------------------------------
(* get_varspec, one line at a time *)

Parser == ParserState(status, thisrec, varspec, "")

\* lines 95-140: the data-list loop reads a line and runs its body
VarspecLayoutLine ==
    /\ pc = "layout"
    /\ ~eof
    /\ status # "done"
    /\ \E line \in ParseLines :
        /\ (status = "data list" /\ MatchVarDecl(line)) => Len(varspec.vars) < MaxVars
        /\ LET st == LayoutStep(Parser, line)
           IN /\ status' = st.status
              /\ thisrec' = st.thisrec
              /\ varspec' = st.varspec
              /\ err' = st.err
              /\ pc' = IF st.err # "" THEN "error" ELSE "layout"
    /\ UNCHANGED <<eof, dataVars, textVars, valsVars, mainVars>>

\* lines 141-149: in status "done" the loop reads one more line and breaks
VarspecLayoutBreak ==
    /\ pc = "layout"
    /\ ~eof
    /\ status = "done"
    /\ LET st == AfterLayout(Parser)
       IN /\ status' = st.status
          /\ varspec' = st.varspec
    /\ pc' = "labels"
    /\ UNCHANGED <<thisrec, eof, err, dataVars, textVars, valsVars, mainVars>>

\* lines 95, 144-149: the file ends under the data-list loop
VarspecLayoutEOF ==
    /\ pc = "layout"
    /\ ~eof
    /\ LET st == AfterLayout(Parser)
       IN /\ status' = st.status
          /\ varspec' = st.varspec
    /\ eof' = TRUE
    /\ pc' = "labels"
    /\ UNCHANGED <<thisrec, err, dataVars, textVars, valsVars, mainVars>>

\* lines 150-162: the variable-labels loop reads a line and runs its body
VarspecLabelLine ==
    /\ pc = "labels"
    /\ ~eof
    /\ status # "end variable labels"
    /\ \E line \in ParseLines :
        LET st == LabelStep(Parser, line)
        IN /\ status' = st.status
           /\ varspec' = st.varspec
           /\ err' = st.err
           /\ pc' = IF st.err # "" THEN "error" ELSE "labels"
    /\ UNCHANGED <<thisrec, eof, dataVars, textVars, valsVars, mainVars>>

\* lines 164-168: after the terminator the loop reads one more line and breaks
VarspecLabelBreak ==
    /\ pc = "labels"
    /\ ~eof
    /\ status = "end variable labels"
    /\ pc' = "parsed"
    /\ UNCHANGED <<parserVars, err, dataVars, textVars, valsVars, mainVars>>

\* lines 150, 167-168: the file ends under the variable-labels loop
VarspecLabelEOF ==
    /\ pc = "labels"
    /\ eof' = TRUE
    /\ pc' = "parsed"
    /\ UNCHANGED <<status, thisrec, varspec, err, dataVars, textVars, valsVars, mainVars>>

-----------------------------------------------------------------------------
(* sanitize_text applied once *)

Sanitize ==
    /\ pc = "sanitize"
    /\ txtout' = sanitize_text(txtin)
    /\ pc' = "sanitized"
    /\ UNCHANGED <<parserVars, dataVars, err, txtin, valsVars, mainVars>>

Vals == ValsState(vstatus, varname, valspec, "")

\* lines 219-241: the loop reads a line and runs its body
ValuelabelsLine ==
    /\ pc = "vals"
    /\ vstatus # 2
    /\ \E line \in ValLines :
        /\ (vstatus = 1 /\ MatchValue(line)) => Len(valspec) < MaxVals
        /\ (vstatus = 1 /\ MatchPlus(line) /\ valspec # <<>>) =>
              Len(valspec[Len(valspec)][3]) < MaxLabelLen
        /\ LET st == ValStep(Vals, line)
           IN /\ vstatus' = st.status
              /\ varname' = st.varname
              /\ valspec' = st.valspec
              /\ err' = st.err
              /\ pc' = IF st.err # "" THEN "error" ELSE "vals"
    /\ UNCHANGED <<parserVars, dataVars, textVars, mainVars>>

\* lines 243-247: after the terminator the loop reads one more line, breaks,
\* and the list is returned
ValuelabelsBreak ==
    /\ pc = "vals"
    /\ vstatus = 2
    /\ pc' = "vals_returned"
    /\ UNCHANGED <<parserVars, dataVars, textVars, valsVars, mainVars, err>>

\* lines 219, 246-247: the file ends under the loop and the list is returned
ValuelabelsEOF ==
    /\ pc = "vals"
    /\ pc' = "vals_returned"
    /\ UNCHANGED <<parserVars, dataVars, textVars, valsVars, mainVars, err>>

\* sys.argv[i] of the source
Arg(i) == argv[i + 1]

\* lines 369-371: fewer than two arguments
MainUsage ==
    /\ pc = "main"
    /\ Len(argv) < 3
    /\ printed' = Append(printed, "youfail")
    /\ pc' = "exit"
    /\ UNCHANGED <<parserVars, dataVars, textVars, valsVars, err,
                   argv, synfile, ddl, rows, nr, nw>>

\* line 374: vs = get_varspec(sys.argv[2])
MainGetVarspec ==
    /\ pc = "main"
    /\ Len(argv) >= 3
    /\ LET st == GetVarspec(synfile)
       IN /\ status' = st.status
          /\ thisrec' = st.thisrec
          /\ varspec' = st.varspec
          /\ err' = st.err
          /\ pc' = IF st.err # "" THEN "error" ELSE "dispatch"
    /\ eof' = TRUE
    /\ UNCHANGED <<dataVars, textVars, valsVars, mainVars>>

\* lines 377-378
MainDdl ==
    /\ pc = "dispatch"
    /\ Arg(1) = "ddl"
    /\ ddl' = get_data_ddl(varspec)
    /\ pc' = "exit"
    /\ UNCHANGED <<parserVars, dataVars, textVars, valsVars, err,
                   argv, synfile, rows, nr, nw, printed>>

\* lines 381-382: sys.argv[3] is evaluated before save_vars is entered
MainVars ==
    /\ pc = "dispatch"
    /\ Arg(1) = "vars"
    /\ IF Len(argv) < 4
       THEN /\ pc' = "error" /\ err' = "IndexError"
            /\ UNCHANGED <<rows, n>>
       ELSE /\ rows' = save_vars(varspec)
            /\ n' = Len(varspec.vars)
            /\ pc' = "exit" /\ err' = ""
    /\ UNCHANGED <<parserVars, textVars, valsVars, maxrows, navail, dataLines,
                   nout, fout, fnames, opened, rectype, rec,
                   argv, synfile, ddl, nr, nw, printed>>

\* lines 385-386: vals = get_valuelabels(sys.argv[2])
MainGetValuelabels ==
    /\ pc = "dispatch"
    /\ Arg(1) = "vals"
    /\ LET st == GetValuelabels(synfile)
       IN /\ vstatus' = st.status
          /\ varname' = st.varname
          /\ valspec' = st.valspec
          /\ err' = st.err
          /\ pc' = IF st.err # "" THEN "error" ELSE "vals_save"
    /\ UNCHANGED <<parserVars, dataVars, textVars, mainVars>>

\* line 387: sys.argv[3] is evaluated before save_valuelabels is entered
MainSaveValuelabels ==
    /\ pc = "vals_save"
    /\ IF Len(argv) < 4
       THEN /\ pc' = "error" /\ err' = "IndexError"
            /\ UNCHANGED <<rows, nr, nw>>
       ELSE /\ LET out == save_valuelabels(varspec, valspec)
               IN /\ rows' = out.rows
                  /\ nr' = out.nr
                  /\ nw' = out.nw
            /\ pc' = "exit" /\ err' = ""
    /\ UNCHANGED <<parserVars, dataVars, textVars, valsVars,
                   argv, synfile, ddl, printed>>

\* lines 390-394: the cap is sys.argv[5] when there are exactly five
\* arguments; sys.argv[3] and sys.argv[4] are evaluated before save_data is
\* entered, whose int(maxrows) converts the cap
MainData ==
    /\ pc = "dispatch"
    /\ Arg(1) = "data"
    /\ IF Len(argv) < 5
       THEN /\ pc' = "error" /\ err' = "IndexError"
            /\ UNCHANGED maxrows
       ELSE /\ maxrows' = IF Len(argv) = 6 THEN ToInt(<<Arg(5)>>) ELSE 0
            /\ pc' = "save_open" /\ err' = ""
    /\ UNCHANGED <<parserVars, textVars, valsVars, mainVars, navail, dataLines,
                   n, nout, fout, fnames, opened, rectype, rec>>

\* lines 396-397: the mode is none of the four
MainUnknown ==
    /\ pc = "dispatch"
    /\ Arg(1) \notin {"ddl", "vars", "vals", "data"}
    /\ printed' = Append(printed, "youfail")
    /\ pc' = "exit"
    /\ UNCHANGED <<parserVars, dataVars, textVars, valsVars, err,
                   argv, synfile, ddl, rows, nr, nw>>

-----------------------------------------------------------------------------
(* Specifications *)

DataIdle ==
    /\ maxrows = 0
    /\ navail = 0
    /\ dataLines = <<>>
    /\ n = 0
    /\ nout = <<>>
    /\ fout = <<>>
    /\ fnames = <<>>
    /\ opened = {}
    /\ rectype = NoRec
    /\ rec = <<>>

TextIdle ==
    /\ txtin = <<>>
    /\ txtout = Unset

ValsIdle ==
    /\ vstatus = 0
    /\ varname = Unset
    /\ valspec = <<>>

MainIdle ==
    /\ argv = <<>>
    /\ synfile = <<>>
    /\ ddl = NoDdl
    /\ rows = NoFile
    /\ nr = 0
    /\ nw = 0
    /\ printed = <<>>

\* the transcode of a raw data file: get_varspec has returned, save_data starts
Init ==
    /\ pc = "save_open"
    /\ \E file \in SyntaxFiles :
        LET st == GetVarspec(file)
        IN /\ status = st.status
           /\ thisrec = st.thisrec
           /\ varspec = st.varspec
    /\ eof = TRUE
    /\ maxrows \in 0..MaxLines
    /\ navail \in 0..MaxLines
    /\ dataLines = <<>>
    /\ n = 0
    /\ nout = <<>>
    /\ fout = <<>>
    /\ fnames = <<>>
    /\ opened = {}
    /\ rectype = NoRec
    /\ rec = <<>>
    /\ err = ""
    /\ TextIdle
    /\ ValsIdle
    /\ MainIdle

Next == SaveOpen \/ SaveLine \/ SaveEOF \/ SaveClose

Spec == Init /\ [][Next]_vars

\* get_varspec on a syntax file read line by line
InitParse ==
    /\ pc = "layout"
    /\ status = "wait"
    /\ thisrec = NoRec
    /\ varspec = EmptyVarspec
    /\ eof = FALSE
    /\ err = ""
    /\ DataIdle
    /\ TextIdle
    /\ ValsIdle
    /\ MainIdle

NextParse ==
    \/ VarspecLayoutLine
    \/ VarspecLayoutBreak
    \/ VarspecLayoutEOF
    \/ VarspecLabelLine
    \/ VarspecLabelBreak
    \/ VarspecLabelEOF

SpecParse == InitParse /\ [][NextParse]_vars

\* sanitize_text on one text
InitSanitize ==
    /\ pc = "sanitize"
    /\ status = "wait"
    /\ thisrec = NoRec
    /\ varspec = EmptyVarspec
    /\ eof = FALSE
    /\ err = ""
    /\ DataIdle
    /\ txtin \in SeqsUpTo(TextChars, MaxTextLen)
    /\ txtout = Unset
    /\ ValsIdle
    /\ MainIdle

NextSanitize == Sanitize

SpecSanitize == InitSanitize /\ [][NextSanitize]_vars

\* get_valuelabels on a syntax file read line by line
InitVals ==
    /\ pc = "vals"
    /\ status = "wait"
    /\ thisrec = NoRec
    /\ varspec = EmptyVarspec
    /\ eof = FALSE
    /\ err = ""
    /\ DataIdle
    /\ TextIdle
    /\ ValsIdle
    /\ MainIdle

NextVals == ValuelabelsLine \/ ValuelabelsBreak \/ ValuelabelsEOF

SpecVals == InitVals /\ [][NextVals]_vars

\* the command: __main__ on a command line and a syntax file
InitMain ==
    /\ pc = "main"
    /\ status = "wait"
    /\ thisrec = NoRec
    /\ varspec = EmptyVarspec
    /\ eof = FALSE
    /\ err = ""
    /\ \E mode \in Modes :
        /\ argv \in Argvs(mode)
        /\ synfile \in FilesOf(mode)
        /\ navail \in IF mode = "data" THEN 0..MaxLines ELSE {0}
    /\ maxrows = 0
    /\ dataLines = <<>>
    /\ n = 0
    /\ nout = <<>>
    /\ fout = <<>>
    /\ fnames = <<>>
    /\ opened = {}
    /\ rectype = NoRec
    /\ rec = <<>>
    /\ TextIdle
    /\ ValsIdle
    /\ ddl = NoDdl
    /\ rows = NoFile
    /\ nr = 0
    /\ nw = 0
    /\ printed = <<>>

NextMain ==
    \/ MainUsage
    \/ MainGetVarspec
    \/ MainDdl
    \/ MainVars
    \/ MainGetValuelabels
    \/ MainSaveValuelabels
    \/ MainData
    \/ MainUnknown
    \/ SaveOpen
    \/ SaveLine
    \/ SaveEOF
    \/ SaveClose

SpecMain == InitMain /\ [][NextMain]_vars

-----------------------------------------------------------------------------
(* Claims *)

RECURSIVE EscapeEach(_)
\* every character escaped on its own: tab -> \t, backslash -> \\, others kept
EscapeEach(t) ==
    IF t = <<>> THEN <<>>
    ELSE (IF Head(t) = TAB THEN <<BSL, "t">>
          ELSE IF Head(t) = BSL THEN <<BSL, BSL>>
          ELSE <<Head(t)>>)
         \o EscapeEach(Tail(t))

\* C1: sanitize_text, applied once, replaces every tab by the two characters
\* backslash, 't' and every backslash of the input by two backslashes, and
\* copies every other character unchanged and in order.
C1_SanitizeEscapesEach == pc = "sanitized" => txtout = EscapeEach(txtin)

\* the variables of the layout that apply to a line of record type rt, in order
ApplicableVars(vs, rt) == SelectSeq(vs.vars, LAMBDA v : Applies(vs, v, rt))

\* some variable that applies to the line ends beyond the line's last
\* character (the newline counted as a character of the line)
ShortFor(vs, line) ==
    /\ RecTypeOk(vs)
    /\ \E i \in 1..Len(vs.vars) :
        /\ Applies(vs, vs.vars[i], RecTypeOf(vs, line))
        /\ Len(line) < ToInt(vs.vars[i].endpos)

\* C2: a raw line shorter than the endPos of a variable that applies to it
\* ends the transcode in an error, and no output line is written for it.
C2_ShortLineRaises ==
    \A i \in 1..Len(dataLines) :
        ShortFor(varspec, dataLines[i]) => (pc = "error" /\ i > n)

\* s with a decimal point d characters from its right end
PointFromRight(s, d) ==
    SubSeq(s, 1, Len(s) - d) \o <<".">> \o SubSeq(s, Len(s) - d + 1, Len(s))

\* C3: of the record built from the last line read, the field of a variable
\* with implied-decimal count d whose trimmed slice s has at least d
\* characters is s with one decimal point d characters from its right end; the
\* field of a variable without a count is the trimmed slice itself.
C3_DecimalPointFromRight ==
    (pc \in {"save_loop", "save_close", "done"} /\ n >= 1) =>
        LET line == dataLines[n]
            avs == ApplicableVars(varspec, RecTypeOf(varspec, line))
        IN /\ Len(rec) = Len(avs)
           /\ \A k \in 1..Len(avs) :
                LET s == RawField(avs[k], line)
                IN IF "digits" \in avs[k].keys
                   THEN Len(s) >= ToInt(avs[k].digits)
                            => rec[k] = PointFromRight(s, ToInt(avs[k].digits))
                   ELSE rec[k] = s

\* some variable that applies to the line has an implied-decimal count
\* larger than the length of its trimmed slice
ShortDecimalFor(vs, line) ==
    /\ RecTypeOk(vs)
    /\ \E i \in 1..Len(vs.vars) :
        /\ Applies(vs, vs.vars[i], RecTypeOf(vs, line))
        /\ "digits" \in vs.vars[i].keys
        /\ Len(RawField(vs.vars[i], line)) < ToInt(vs.vars[i].digits)

\* C4: a line with a trimmed field shorter than its variable's implied-decimal
\* count ends the transcode in an error, and nothing is written for it.
C4_ShortDecimalFieldRaises ==
    \A i \in 1..Len(dataLines) :
        ShortDecimalFor(varspec, dataLines[i]) => (pc = "error" /\ i > n)

\* the number of records a cap of m leaves of lines available lines
CapResult(m, lines) == IF m > 0 THEN Min(m, lines) ELSE lines

RECURSIVE SumOver(_, _)
SumOver(f, S) ==
    IF S = {} THEN 0
    ELSE LET x == CHOOSE y \in S : TRUE
         IN f[x] + SumOver(f, S \ {x})

\* the lines written to all output files together
TotalWritten == SumOver([r \in DOMAIN fout |-> Len(fout[r])], DOMAIN fout)

\* C5: with N available lines and cap m, a transcode that completes has read
\* min(m, N) records (N if m = 0), has written that many lines in total and
\* reports that count; at no time has a line beyond the cap been read or
\* written; and a transcode of a flat layout always completes.
C5_RowCap ==
    /\ pc = "done" =>
        /\ n = CapResult(maxrows, navail)
        /\ Len(dataLines) = n
        /\ TotalWritten = n
    /\ Len(dataLines) <= CapResult(maxrows, navail)
    /\ TotalWritten = n
    /\ n <= Len(dataLines)
    /\ pc = "error" => varspec.mixed

C5_CapCutsInput ==
    pc = "done" /\ maxrows > 0 /\ maxrows < navail /\ n = maxrows /\ TotalWritten = n

\* the lines among ls whose trimmed discriminator is rt
LinesOfType(vs, ls, rt) == SelectSeq(ls, LAMBDA l : RecTypeOf(vs, l) = rt)

\* the variables declared under record type rt, in order
VarsOfType(vs, rt) ==
    SelectSeq(vs.vars, LAMBDA v : "rectype" \in v.keys /\ v.rectype = rt)

\* the output line of record type rt for a raw line
LineOfType(vs, rt, line) ==
    LET vt == VarsOfType(vs, rt)
    IN OutLine([k \in 1..Len(vt) |-> Field(vt[k], line)])

\* C6: in a hierarchical transcode, after every processed line, each record
\* type's file holds exactly the processed lines whose trimmed discriminator
\* is that record type, in order, each built from that record type's
\* variables only; distinct record types have distinct files; and the counts
\* written per record type sum to the count of records read.
C6_OneStreamPerRecordType ==
    (varspec.mixed /\ DOMAIN fout = varspec.rectypes) =>
        /\ \A r \in varspec.rectypes :
            LET ls == LinesOfType(varspec, SubSeq(dataLines, 1, n), r)
            IN /\ Len(fout[r]) = Len(ls)
               /\ \A k \in 1..Len(ls) : fout[r][k] = LineOfType(varspec, r, ls[k])
               /\ nout[r] = Len(fout[r])
        /\ \A r1, r2 \in varspec.rectypes : r1 # r2 => fnames[r1] # fnames[r2]
        /\ SumOver(nout, DOMAIN nout) = n

C6_TwoStreamsWritten ==
    /\ varspec.mixed
    /\ pc = "done"
    /\ DOMAIN fout = {RecH, RecP}
    /\ Len(fout[RecH]) = 1
    /\ Len(fout[RecP]) = 1
    /\ VarsOfType(varspec, RecH) # <<>>
    /\ VarsOfType(varspec, RecP) # <<>>

\* C7: while and after a hierarchical layout is parsed, every variable carries
\* a recordType, and that recordType is in the registered recordTypes.
C7_RecordTypesRegistered ==
    varspec.mixed =>
        \A i \in 1..Len(varspec.vars) :
            /\ "rectype" \in varspec.vars[i].keys
            /\ varspec.vars[i].rectype \in varspec.rectypes

C7_TwoTypesParsed ==
    /\ pc = "parsed"
    /\ varspec.mixed
    /\ \E i, j \in 1..Len(varspec.vars) :
        varspec.vars[i].rectype = RecH /\ varspec.vars[j].rectype = RecP

\* C8: a flat layout has isHierarchical false, exactly the placeholder in
\* recordTypes and no variable with a recordType, and the transcoder writes
\* every line it reads to the placeholder's stream.
C8_FlatLayoutOnePlaceholder ==
    ~varspec.mixed =>
        /\ varspec.rectypes = {DefaultRecType}
        /\ \A i \in 1..Len(varspec.vars) : "rectype" \notin varspec.vars[i].keys
        /\ pc # "error"
        /\ pc # "save_open" =>
            /\ DOMAIN fout = {DefaultRecType}
            /\ rectype = DefaultRecType
            /\ Len(fout[DefaultRecType]) = Len(dataLines)
            /\ nout[DefaultRecType] = Len(dataLines)
            /\ n = Len(dataLines)

C8_FlatTranscoded ==
    /\ ~varspec.mixed
    /\ pc = "done"
    /\ varspec.vars # <<>>
    /\ n >= 2

\* C9: every variable of the specification has startPos >= 1, endPos >= 1
\* and startPos <= endPos.
C9_ColumnBoundsOrdered ==
    \A i \in 1..Len(varspec.vars) :
        /\ ToInt(varspec.vars[i].startpos) >= 1
        /\ ToInt(varspec.vars[i].endpos) >= 1
        /\ ToInt(varspec.vars[i].startpos) <= ToInt(varspec.vars[i].endpos)

\* the discriminator's last column: the declared end, or the start column
\* when the declaration gives no end
DiscriminatorEnd(vs) ==
    IF vs.rectype_endpos = <<>> THEN vs.rectype_startpos ELSE vs.rectype_endpos

\* C10: save_data gives every line it reads the record type found by slicing
\* the discriminator's columns start..end (one column when the declaration
\* has no '-end') and trimming the slice.
C10_DiscriminatorColumns ==
    varspec.mixed =>
        /\ err # "ValueError"
        /\ (pc \in {"save_loop", "save_close"} /\ n >= 1) =>
            rectype = Strip(PySlice(dataLines[n],
                                    ToInt(varspec.rectype_startpos) - 1,
                                    ToInt(DiscriminatorEnd(varspec))))

\* C19: however the transcode ends, on completion or on an error raised while
\* a data line is processed, no output file is left open.
C19_FilesClosedAtEnd == pc \in {"done", "error"} => opened = {}

\* the processed lines (the first n read) whose trimmed discriminator is rt
Processed(rt) == LinesOfType(varspec, SubSeq(dataLines, 1, n), rt)

\* C20: in a hierarchical transcode a line whose trimmed discriminator is not
\* a registered record type is the last line read: the run has aborted on it,
\* it is not counted, and the files and the per-record-type counts hold
\* exactly the lines before it, all of registered record types.
C20_UnregisteredTypeAborts ==
    (varspec.mixed /\ RecTypeOk(varspec) /\ DOMAIN fout = varspec.rectypes) =>
        /\ \A i \in 1..Len(dataLines) :
            RecTypeOf(varspec, dataLines[i]) \notin varspec.rectypes =>
                /\ pc = "error"
                /\ i = Len(dataLines)
                /\ n = i - 1
        /\ \A i \in 1..n : RecTypeOf(varspec, dataLines[i]) \in varspec.rectypes
        /\ \A r \in varspec.rectypes :
            nout[r] = Len(Processed(r)) /\ Len(fout[r]) = Len(Processed(r))
        /\ TotalWritten = n

C20_AbortedAfterOneRecord ==
    /\ varspec.mixed
    /\ pc = "error"
    /\ err = "KeyError"
    /\ n = 1
    /\ Len(dataLines) = 2
    /\ TotalWritten = 1

\* the variables of a sequence without their labels
Unlabelled(vs) == [i \in 1..Len(vs) |-> [vs[i] EXCEPT !.label = <<>>, !.keys = @ \ {"label"}]]

\* C17: while the layout is read, a step that adds a variable adds one at the
\* end, tagged with the current record type when there is one and untagged
\* otherwise; the current record type changes only on a record-type
\* declaration read while one is awaited; the terminator of a variable list
\* goes back to awaiting a record type when a record type is current and
\* completes the layout when none is; with a record type current the layout
\* completes only from the awaiting phase; once the layout is complete no
\* step adds, removes or alters a declared variable.
C17_RecordTypeContext ==
    [][ /\ (pc = "layout" /\ varspec'.vars # varspec.vars) =>
              /\ status = "data list" /\ status' = "data list"
              /\ Len(varspec'.vars) = Len(varspec.vars) + 1
              /\ SubSeq(varspec'.vars, 1, Len(varspec.vars)) = varspec.vars
              /\ LET var == varspec'.vars[Len(varspec'.vars)]
                 IN IF thisrec # NoRec
                    THEN "rectype" \in var.keys /\ var.rectype = thisrec
                    ELSE "rectype" \notin var.keys
        /\ thisrec' # thisrec =>
              /\ pc = "layout" /\ status = "rectype" /\ status' = "wait"
              /\ thisrec' \in varspec'.rectypes
        /\ (pc = "layout" /\ pc' = "layout" /\ status = "data list"
                /\ status' # "data list") =>
              status' = IF thisrec = NoRec THEN "done" ELSE "rectype"
        /\ (pc = "layout" /\ status # "done" /\ status' = "done"
                /\ thisrec # NoRec) =>
              status = "rectype"
        /\ (status = "done" \/ pc \in {"labels", "parsed"}) =>
              Unlabelled(varspec'.vars) = Unlabelled(varspec.vars)
      ]_vars

C17_TwoContextsClosed ==
    /\ pc = "layout"
    /\ status = "done"
    /\ varspec.mixed
    /\ Len(varspec.vars) = 2
    /\ "rectype" \in varspec.vars[1].keys
    /\ "rectype" \in varspec.vars[2].keys
    /\ varspec.vars[1].rectype # varspec.vars[2].rectype

\* C12: while get_valuelabels collects after a slash line, the loop body run
\* on any value line appends exactly one triple at the end of the list,
\* tagged with the variable name of the last slash line read; a step that
\* changes the number of triples is such an append and keeps the triples
\* before it; after the terminator no step changes the list.
C12_ValueLineAppendsTriple ==
    [][ /\ (pc = "vals" /\ vstatus = 1 /\ varname # Unset) =>
              \A line \in ValLines : MatchValue(line) =>
                  /\ ValStep(Vals, line).err = ""
                  /\ ValStep(Vals, line).valspec =
                        valspec \o << <<varname, line.name, line.text>> >>
        /\ Len(valspec') # Len(valspec) =>
              /\ vstatus = 1
              /\ varname # Unset
              /\ Len(valspec') = Len(valspec) + 1
              /\ SubSeq(valspec', 1, Len(valspec)) = valspec
              /\ valspec'[Len(valspec')][1] = varname
              /\ \E line \in ValLines :
                    /\ MatchValue(line)
                    /\ valspec'[Len(valspec')][2] = line.name
                    /\ valspec'[Len(valspec')][3] = line.text
        /\ vstatus = 2 => valspec' = valspec
      ]_vars

C12_TwoTriplesOfV1 ==
    /\ pc = "vals_returned"
    /\ vstatus = 2
    /\ valspec = << <<(<<"V", "1">>), (<<"1">>), (<<"Y">>)>>,
                    <<(<<"V", "1">>), (<<"2">>), (<<"N">>)>> >>

\* the list with the label of its last triple replaced by an empty text
WithoutLastLabel(vals) == [vals EXCEPT ![Len(vals)][3] = <<>>]

\* C13: while get_valuelabels collects, the loop body run on a continuation
\* line appends the fragment to the label of the last triple when the list
\* is not empty, and raises IndexError when it is empty; a step that keeps
\* the number of triples and changes the list has appended a fragment to the
\* label of the last triple and has changed nothing else, whatever the
\* current variable name is; a step that ends in an IndexError is taken with
\* an empty list, and the list is not returned.
C13_ContinuationExtendsLastLabel ==
    [][ /\ (pc = "vals" /\ vstatus = 1) =>
              \A line \in ValLines : MatchPlus(line) =>
                  IF valspec = <<>>
                  THEN ValStep(Vals, line).err = "IndexError"
                  ELSE /\ ValStep(Vals, line).err = ""
                       /\ ValStep(Vals, line).varname = varname
                       /\ ValStep(Vals, line).valspec =
                             [valspec EXCEPT ![Len(valspec)][3] = @ \o line.text]
        /\ (Len(valspec') = Len(valspec) /\ valspec' # valspec) =>
              /\ vstatus = 1 /\ vstatus' = 1
              /\ varname' = varname
              /\ WithoutLastLabel(valspec') = WithoutLastLabel(valspec)
              /\ \E line \in ValLines :
                    /\ MatchPlus(line)
                    /\ valspec'[Len(valspec)][3] = valspec[Len(valspec)][3] \o line.text
        /\ err' = "IndexError" =>
              valspec = <<>> /\ valspec' = <<>> /\ pc' = "error"
        /\ pc = "error" => pc' = "error"
      ]_vars

C13_ContinuedAfterNewName ==
    /\ pc = "vals"
    /\ varname = <<"V", "3">>
    /\ valspec = << <<(<<"V", "1">>), (<<"1">>), (<<"Y">>)>>,
                    <<(<<"V", "1">>), (<<"2">>), (<<"N", "e">>)>> >>

\* the names of the declaration lines of a syntax file, in the file's order
DeclNames(file) ==
    LET ds == SelectSeq(file, LAMBDA l : l.kind = "var")
    IN [i \in 1..Len(ds) |-> ds[i].name]

RECURSIVE AllCols(_)
\* the columns of the statements, in the order of the text
AllCols(stmts) ==
    IF stmts = <<>> THEN <<>> ELSE Head(stmts).cols \o AllCols(Tail(stmts))

\* the transcoded fields of a raw line under record type rt: those of the
\* variables that apply, in the order of the variables sequence
FieldsOf(rt, line) ==
    LET vt == ApplicableVars(varspec, rt)
    IN [k \in 1..Len(vt) |-> Field(vt[k], line)]

\* C11: once get_varspec has returned, the variables sequence names the
\* declaration lines of the syntax file in the file's order; the columns of
\* the generated statements, the rows save_vars writes, and the fields of
\* every line save_data writes (those of the variables of the line's record
\* type) follow that same order.
C11_DeclarationOrderKept ==
    (pc # "main" /\ Len(argv) >= 3) =>
        LET names == DeclNames(synfile)
        IN /\ [i \in 1..Len(varspec.vars) |-> varspec.vars[i].name] = names
           /\ ddl # NoDdl =>
                 [i \in 1..Len(AllCols(ddl)) |-> AllCols(ddl)[i].name] = names
           /\ (rows # NoFile /\ Arg(1) = "vars") =>
                 /\ Len(rows) = Len(names)
                 /\ \A i \in 1..Len(rows) :
                       SubSeq(rows[i], 1, Len(names[i]) + 1) = names[i] \o <<TAB>>
           /\ \A r \in DOMAIN fout : \A k \in 1..Len(fout[r]) :
                 fout[r][k] = OutLine(FieldsOf(r, Processed(r)[k]))

C11_TwoColumnsInFileOrder ==
    /\ pc = "exit"
    /\ ddl # NoDdl
    /\ DeclNames(synfile) = << <<"V", "3">>, <<"V", "1">> >>
    /\ Len(ddl) = 1
    /\ Len(ddl[1].cols) = 2

\* the width the claim names: endPos - startPos + 1
Width(var) == ToInt(var.endpos) - ToInt(var.startpos) + 1

\* C15: in the statements get_data_ddl returns, the column of every variable
\* has the text type of size w if the variable is alpha, the floating type if
\* it has implied decimals, and otherwise bigint if w > 9 and int if w <= 9,
\* where w is the variable's width.
C15_ColumnTypeByFlagsAndWidth ==
    ddl # NoDdl =>
        /\ Len(AllCols(ddl)) = Len(varspec.vars)
        /\ \A i \in 1..Len(varspec.vars) :
            LET var == varspec.vars[i]
                type == AllCols(ddl)[i].type
            IN /\ "alpha" \in var.keys =>
                     type = <<"v", "a", "r", "c", "h", "a", "r", "(">>
                            \o IntToStr(Width(var)) \o <<")">>
               /\ ("alpha" \notin var.keys /\ "digits" \in var.keys) =>
                     type = <<"double precision">>
               /\ ("alpha" \notin var.keys /\ "digits" \notin var.keys
                        /\ Width(var) > 9) =>
                     type = <<"bigint">>
               /\ ("alpha" \notin var.keys /\ "digits" \notin var.keys
                        /\ Width(var) <= 9) =>
                     type = <<"int">>

C15_WidthsTenAndNine ==
    /\ pc = "exit"
    /\ ddl # NoDdl
    /\ Len(varspec.vars) = 2
    /\ Width(varspec.vars[1]) = 10
    /\ Width(varspec.vars[2]) = 9
    /\ AllCols(ddl)[1].type = <<"bigint">>
    /\ AllCols(ddl)[2].type = <<"int">>

\* the triples whose variable is declared and is not alpha-flagged
WrittenTriples(vs, vals) ==
    SelectSeq(vals, LAMBDA t :
        /\ \E i \in 1..Len(vs.vars) : vs.vars[i].name = t[1]
        /\ \A i \in 1..Len(vs.vars) :
              vs.vars[i].name = t[1] => "alpha" \notin vs.vars[i].keys)

\* C14: when save_valuelabels has returned, the file holds, in list order,
\* one row for each triple whose variable is declared and not alpha-flagged:
\* the name, a tab, the coded value, a tab, the label with every tab
\* replaced by the two characters \t and every backslash doubled, and a
\* newline; the read count is the number of triples and the written count is
\* the number of rows.
C14_ValueLabelRows ==
    (pc = "exit" /\ rows # NoFile /\ Arg(1) = "vals") =>
        LET ts == WrittenTriples(varspec, valspec)
        IN /\ rows = [k \in 1..Len(ts) |->
                        ts[k][1] \o <<TAB>> \o ts[k][2] \o <<TAB>>
                        \o EscapeEach(ts[k][3]) \o <<NL>>]
           /\ nr = Len(valspec)
           /\ nw = Len(rows)

\* the number of command-line words a mode needs, the program name counted
Needs(mode) ==
    CASE mode = "ddl" -> 3
      [] mode \in {"vars", "vals"} -> 4
      [] mode = "data" -> 5
      [] OTHER -> 3

\* C16: when the process has ended on a command line with fewer arguments
\* than its mode needs, the usage message has been printed, no exception has
\* been raised, and no statement has been generated and no output file
\* created.
C16_TooFewArgumentsIsUsageError ==
    (pc \in {"exit", "error", "done"}
        /\ (Len(argv) < 2 \/ Len(argv) < Needs(argv[2]))) =>
        /\ printed = <<"youfail">>
        /\ err = ""
        /\ ddl = NoDdl
        /\ rows = NoFile
        /\ fnames = <<>>

\* C18: once get_varspec has returned, every line of the variable labels
\* section that names a declared variable has given its text to the first
\* variable of that name, wherever the section starts after the layout.
C18_LabelsAfterLayoutAttached ==
    (pc # "main" /\ Len(argv) >= 3) =>
        \A i \in 1..Len(synfile) :
            LET line == synfile[i]
                k == FirstNamed(varspec.vars, line.name, 1)
            IN (line.kind = "label" /\ k # 0) =>
                  /\ "label" \in varspec.vars[k].keys
                  /\ varspec.vars[k].label = line.text

=============================================================================
